---- MODULE Spec2Model ----
(***************************************************************************)
(* cc_dynamodb: configuration store (set_config / get_config), table       *)
(* creation (create_table) and schema reconciliation (update_table)        *)
(* against a remote DynamoDB service, modelled from                        *)
(* src/cc_dynamodb/__init__.py.                                            *)
(***************************************************************************)
EXTENDS Integers, Sequences, FiniteSets, TLC

VARIABLES
    cached_config,   \* module global _cached_config: <<>> is None, <<cfg>> a Bunch
    environ,         \* os.environ, restricted to the CC_DYNAMODB_* variables
    cfg_call,        \* the last set_config / get_config call and how it ended
    upstream,        \* the remote service's table (for the namespaced name of "t")
    pc,              \* per caller: position inside create_table / update_table
    args,            \* per caller: the arguments of the running invocation
    db_table,        \* per caller: the local table.Table handle (line 249)
    table_metadata,  \* per caller: the describe() snapshot (line 252)
    todo,            \* per caller: names the two for-loops still have to visit
    calls,           \* per caller: calls made on the handle during this invocation
    failed,          \* per caller: <<>> or <<e>>, the JSONResponseError a call raised
    result,          \* per caller: how the invocation ended
    prev             \* per caller: summary of the invocation before this one

vars == <<cached_config, environ, cfg_call, upstream, pc, args, db_table,
          table_metadata, todo, calls, failed, result, prev>>

cfgVars == <<cached_config, environ, cfg_call>>
tblVars == <<upstream, pc, args, db_table, table_metadata, todo, calls, failed,
             result, prev>>

-----------------------------------------------------------------------------
(* Python values that occur as configuration fields and arguments.         *)
(* t is the Python type, n the number (int, bool), s the characters (str). *)

PyNone == [t |-> "none", n |-> 0, s |-> <<>>]
PyStr(chars) == [t |-> "str", n |-> 0, s |-> chars]
PyInt(k) == [t |-> "int", n |-> k, s |-> <<>>]
PyBool(b) == [t |-> "bool", n |-> (IF b THEN 1 ELSE 0), s |-> <<>>]

\* Python truth value: None, False, 0 and "" are false.
Truthy(v) ==
    CASE v.t = "none" -> FALSE
      [] v.t = "str" -> v.s # <<>>
      [] OTHER -> v.n # 0

\* Python's `a or b`.
PyOr(a, b) == IF Truthy(a) THEN a ELSE b

-----------------------------------------------------------------------------
(* Throughput values.  The `throughput=False` default of create_table and  *)
(* update_table is the "not given" marker; anything else is a dict.        *)

NotGiven == [given |-> FALSE, read |-> 0, write |-> 0]
Throughput(r, w) == [given |-> TRUE, read |-> r, write |-> w]

\* boto's GlobalBaseIndexField default, used when no throughput is passed to
\* the index constructor.
BotoIndexThroughput == Throughput(5, 5)

-----------------------------------------------------------------------------
(* The YAML configuration and the values the model draws from.             *)

Procs == {1, 2}
SeqProcs == {1}

IndexNames == {"A", "B", "C"}
\* Table names are character sequences; "t" is declared in the YAML, "u" is not.
Declared == <<"t">>
TableNames == { Declared, <<"u">> }

\* Python orders attribute names as strings: "gk" < "id" < "ts".
AttrRank(a) == CASE a = "gk" -> 1 [] a = "id" -> 2 [] a = "ts" -> 3

KeyDetails(name, type, data_type) ==
    [name |-> name, type |-> type, data_type |-> data_type]

\* Primary keys the YAML may declare; the second lists the range key first.
LocalSchemas ==
    { << KeyDetails("id", "HashKey", "STRING") >>,
      << KeyDetails("ts", "RangeKey", "NUMBER"),
         KeyDetails("id", "HashKey", "STRING") >> }

\* An index declaration of the YAML; that of "B" declares no throughput.
IndexDetails(name) ==
    [name |-> name, type |-> "GlobalAllIndex", parts |-> <<>>,
     throughput |-> IF name = "B" THEN NotGiven ELSE Throughput(3, 3)]

AllIndexDetails == << IndexDetails("A"), IndexDetails("B"), IndexDetails("C") >>

\* The index declarations of one table, a YAML list: none, A, A and B, or all.
IndexLists == { SubSeq(AllIndexDetails, 1, k) : k \in 0..Len(AllIndexDetails) }

Yamls ==
    { [schemas |-> (Declared :> ks),
       global_indexes |-> (Declared :> gi),
       columns |-> (Declared :> << [name |-> "note", data_type |-> "STRING"] >>),
       default_throughput |-> Throughput(1, 1)] :
         ks \in LocalSchemas, gi \in IndexLists }

ExplicitThroughputs == { Throughput(2, 2) }
ThroughputArgs == { NotGiven } \cup ExplicitThroughputs

\* A configuration that loaded successfully (what set_config leaves behind).
LoadedConfig(yaml) ==
    [yaml |-> yaml,
     namespace |-> PyStr(<<"n", "_">>),
     aws_access_key_id |-> PyStr(<<"k">>),
     aws_secret_access_key |-> PyStr(<<"s">>),
     host |-> PyNone, port |-> PyNone, is_secure |-> PyNone]

-----------------------------------------------------------------------------
(* Configuration store: set_config and get_config (lines 19-69).           *)

MaxPortLen == 2

Fields == {"namespace", "aws_access_key_id", "aws_secret_access_key",
           "host", "port", "is_secure"}
Required == {"namespace", "aws_access_key_id", "aws_secret_access_key"}

\* Character strings of length at most n over the characters cs.
RECURSIVE StringsUpTo(_, _)
StringsUpTo(cs, n) ==
    IF n = 0 THEN { <<>> }
    ELSE StringsUpTo(cs, n - 1) \cup
         { Append(w, c) : w \in StringsUpTo(cs, n - 1), c \in cs }

\* Ports a caller may pass: strings (numeric or not, or empty) and integers.
PortStrings == { PyStr(w) : w \in StringsUpTo({"8", "x"}, MaxPortLen) }
PortArgs == PortStrings \cup { PyInt(0), PyInt(8) }

\* Values a caller may pass for each field besides leaving it out (None).
Supplied(f) ==
    CASE f = "namespace" -> { PyStr(<<>>), PyStr(<<"k", "_">>) }
      [] f = "port" -> PortArgs
      [] f = "is_secure" -> { PyBool(FALSE), PyBool(TRUE) }
      [] OTHER -> { PyStr(<<"k">>) }

NoKwargs == [f \in Fields |-> PyNone]
RequiredKwargs ==
    [f \in Fields |->
        IF f = "namespace" THEN PyStr(<<"k", "_">>)
        ELSE IF f \in Required THEN PyStr(<<"k">>) ELSE PyNone]

\* The keyword arguments of a call: nothing, the three required fields, or
\* the three required fields with one field changed.
KwargsSet ==
    { NoKwargs, RequiredKwargs } \cup
    UNION { { [RequiredKwargs EXCEPT ![f] = v] : v \in Supplied(f) \cup { PyNone } } :
              f \in Fields }

\* os.environ: every variable is unset or a string.
EnvUnset == [f \in Fields |-> PyNone]
EnvRequired == [f \in Fields |-> IF f \in Required THEN PyStr(<<"e">>) ELSE PyNone]
EnvFull(port) ==
    [f \in Fields |-> IF f = "port" THEN port ELSE PyStr(<<"e">>)]
Environments ==
    { EnvUnset, EnvRequired } \cup
    { EnvFull(PyStr(w)) : w \in { <<>>, <<"8">>, <<"x">> } }

\* The value of a decimal digit, -1 for any other character.
DigitValue(c) ==
    CASE c = "0" -> 0 [] c = "1" -> 1 [] c = "2" -> 2 [] c = "3" -> 3
      [] c = "4" -> 4 [] c = "5" -> 5 [] c = "6" -> 6 [] c = "7" -> 7
      [] c = "8" -> 8 [] c = "9" -> 9 [] OTHER -> -1

RECURSIVE DecimalValue(_)
DecimalValue(chars) ==
    IF chars = <<>> THEN 0
    ELSE 10 * DecimalValue(SubSeq(chars, 1, Len(chars) - 1))
           + DigitValue(chars[Len(chars)])

\* Python's int(v): << "ok", PyInt(k) >>, or << "ValueError", v >> for a
\* string that is not a decimal number.
int(v) ==
    IF v.t = "str"
    THEN IF v.s # <<>> /\ \A i \in 1..Len(v.s) : DigitValue(v.s[i]) >= 0
         THEN << "ok", PyInt(DecimalValue(v.s)) >>
         ELSE << "ValueError", v >>
    ELSE << "ok", PyInt(v.n) >>

\* The YAML file the configuration is loaded from.
ConfigYaml ==
    [schemas |-> (Declared :> << KeyDetails("id", "HashKey", "STRING") >>),
     global_indexes |-> (Declared :> << IndexDetails("A") >>),
     default_throughput |-> Throughput(1, 1)]

\* kwargs.get(name) or os.environ.get(VARIABLE), lines 31-42
ResolveField(kwarg, env) == PyOr(kwarg, env)

\* The Bunch assigned to _cached_config at line 29.
ResolvedConfig(yaml, kwargs, env) ==
    [yaml |-> yaml,
     namespace |-> ResolveField(kwargs["namespace"], env["namespace"]),
     aws_access_key_id |->
         ResolveField(kwargs["aws_access_key_id"], env["aws_access_key_id"]),
     aws_secret_access_key |->
         ResolveField(kwargs["aws_secret_access_key"], env["aws_secret_access_key"]),
     host |-> ResolveField(kwargs["host"], env["host"]),
     port |-> ResolveField(kwargs["port"], env["port"]),
     is_secure |-> ResolveField(kwargs["is_secure"], env["is_secure"])]

\* A validation that does not look at the secret key.
ConfigurationError_no_secret(config) ==
    \/ ~Truthy(config.namespace)
    \/ ~Truthy(config.aws_access_key_id)
    \/ Truthy(config.port) /\ int(config.port)[1] = "ValueError"

\* Lines 46-58: whether set_config raises ConfigurationError for the Bunch.
ConfigurationError(config) ==
    \/ ~Truthy(config.namespace)
    \/ ~Truthy(config.aws_access_key_id)
    \/ ~Truthy(config.aws_secret_access_key)
    \/ Truthy(config.port) /\ int(config.port)[1] = "ValueError"

\* Line 54: the port is replaced by its integer value.
WithIntegerPort(config) ==
    IF Truthy(config.port)
    THEN [config EXCEPT !.port = int(config.port)[2]]
    ELSE config

\* The module global after set_config ran on the Bunch: it was assigned at
\* line 29, before the tests of lines 46-52, and only the port is changed
\* afterwards.
CachedAfterLoad(config) ==
    IF ConfigurationError(config) THEN << config >>
    ELSE << WithIntegerPort(config) >>

\* The last call on the store.  `returned` is the object get_config handed
\* to its caller and `shares` what storage that object shares with the cache:
\* "none", "nested" (the containers below the top level) or "all".
NoCfgCall == [op |-> "", kwargs |-> NoKwargs, loaded |-> FALSE, result |-> "",
              returned |-> <<>>, shares |-> "none"]

\* A copy of the top-level mapping only: the nested containers are shared.
DeepCopy_shallow(config) == [value |-> config, shares |-> "nested"]

\* Bunch(copy.deepcopy(_cached_config.toDict())), line 69: an equal value
\* in storage of its own.
DeepCopy(config) == [value |-> config, shares |-> "none"]

\* set_config(**kwargs), lines 22-60
SetConfig(kwargs) ==
    LET config == ResolvedConfig(ConfigYaml, kwargs, environ)
    IN /\ cached_config' = CachedAfterLoad(config)
       /\ cfg_call' = [op |-> "set_config", kwargs |-> kwargs, loaded |-> TRUE,
                       result |-> IF ConfigurationError(config)
                                  THEN "ConfigurationError" ELSE "ok",
                       returned |-> <<>>, shares |-> "none"]
       /\ UNCHANGED <<environ, tblVars>>

\* A get_config that loads on every call.
GetConfig_reloads(kwargs) ==
    LET config == ResolvedConfig(ConfigYaml, kwargs, environ)
        raised == ConfigurationError(config)
    IN /\ cached_config' = CachedAfterLoad(config)
       /\ cfg_call' = [op |-> "get_config", kwargs |-> kwargs, loaded |-> TRUE,
                       result |-> IF raised THEN "ConfigurationError" ELSE "ok",
                       returned |-> IF raised THEN <<>> ELSE cached_config',
                       shares |-> "none"]
       /\ UNCHANGED <<environ, tblVars>>

\* get_config(**kwargs), lines 63-69: load when the global is None (a Bunch
\* is never empty, hence never false), then return a deep copy.
GetConfig(kwargs) ==
    LET load == cached_config = <<>>
        config == ResolvedConfig(ConfigYaml, kwargs, environ)
        raised == load /\ ConfigurationError(config)
    IN /\ cached_config' = IF load THEN CachedAfterLoad(config) ELSE cached_config
       /\ cfg_call' = [op |-> "get_config", kwargs |-> kwargs, loaded |-> load,
                       result |-> IF raised THEN "ConfigurationError" ELSE "ok",
                       returned |-> IF raised THEN <<>>
                                    ELSE << DeepCopy(cached_config'[1]).value >>,
                       shares |-> IF raised THEN "none"
                                  ELSE DeepCopy(cached_config'[1]).shares]
       /\ UNCHANGED <<environ, tblVars>>

\* What a caller may do to the object it got from get_config: rebind a
\* top-level field, or change the nested table declarations in place.
Mutations == {"top", "nested"}

Mutated(config, m) ==
    IF m = "top"
    THEN [config EXCEPT !.namespace = PyStr(<<"m">>)]
    ELSE [config EXCEPT !.yaml.global_indexes = (Declared :> <<>>)]

\* The caller's write lands in the cache too when the storage is shared.
Reaches(shares, m) == shares = "all" \/ (shares = "nested" /\ m = "nested")

\* The caller of get_config (line 69) mutates the value it was returned.
CallerMutates(m) ==
    /\ cfg_call.returned # <<>>
    /\ cfg_call' = [cfg_call EXCEPT !.op = "caller_mutation", !.loaded = FALSE,
                                    !.returned = << Mutated(@[1], m) >>]
    /\ cached_config' = IF Reaches(cfg_call.shares, m)
                        THEN << Mutated(cached_config[1], m) >>
                        ELSE cached_config
    /\ UNCHANGED <<environ, tblVars>>

-----------------------------------------------------------------------------
(* The remote service.                                                     *)

KS(name, kind) == [AttributeName |-> name, KeyType |-> kind]
AD(name, type) == [AttributeName |-> name, AttributeType |-> type]

\* Key schema and attribute definitions the service may hold for the table.
UpstreamKeys ==
    { [KeySchema |-> << KS("id", "HASH") >>,
       AttributeDefinitions |-> << AD("id", "S") >>],
      [KeySchema |-> << KS("id", "HASH") >>,
       AttributeDefinitions |-> << AD("id", "N") >>],
      [KeySchema |-> << KS("id", "HASH") >>,
       AttributeDefinitions |-> << AD("gk", "S"), AD("id", "S") >>],
      [KeySchema |-> << KS("id", "HASH"), KS("ts", "RANGE") >>,
       AttributeDefinitions |-> << AD("ts", "N"), AD("gk", "S"), AD("id", "S") >>],
      [KeySchema |-> << KS("ts", "HASH"), KS("id", "RANGE") >>,
       AttributeDefinitions |-> << AD("id", "S"), AD("ts", "N") >>] }

NoTable ==
    [exists |-> FALSE, KeySchema |-> <<>>, AttributeDefinitions |-> <<>>,
     gsi |-> {}, throughput |-> NotGiven]

Upstreams ==
    { NoTable } \cup
    { [exists |-> TRUE, KeySchema |-> k.KeySchema,
       AttributeDefinitions |-> k.AttributeDefinitions,
       gsi |-> U, throughput |-> Throughput(1, 1)] :
         k \in UpstreamKeys, U \in SUBSET IndexNames }

\* boto.exception.JSONResponseError: status, error_code, body.
ServiceError(status, code) ==
    [status |-> status, error_code |-> code, body |-> <<"body", code>>]

NotFound == ServiceError(400, "ResourceNotFoundException")
InUse == ServiceError(400, "ResourceInUseException")
Internal == ServiceError(500, "InternalServerError")

ServiceErrors == { NotFound, InUse, Internal }

-----------------------------------------------------------------------------
(* Schema builder (lines 76-120) and name helpers.                         *)

\* getattr(fields, type): the key kind boto puts in the key schema.
FieldAttrType(type) == IF type = "HashKey" THEN "HASH" ELSE "RANGE"

\* getattr(types, data_type): boto's one-letter type tokens.
DynamoType(data_type) == IF data_type = "STRING" THEN "S" ELSE "N"

_build_key(key_details) ==
    [name |-> key_details.name,
     attr_type |-> FieldAttrType(key_details.type),
     data_type |-> DynamoType(key_details.data_type)]

_build_keys(keys_config) ==
    [i \in 1..Len(keys_config) |-> _build_key(keys_config[i])]

\* The index is built from its name and parts only: the declared throughput
\* is not passed on, so the object carries boto's default.
_build_secondary_index(index_details) ==
    [name |-> index_details.name,
     parts |-> _build_keys(index_details.parts),
     throughput |-> BotoIndexThroughput]

_build_secondary_indexes(indexes_config) ==
    [i \in 1..Len(indexes_config) |-> _build_secondary_index(indexes_config[i])]

\* boto's field.schema() and field.definition().
FieldSchema(item) == KS(item.name, item.attr_type)
FieldDefinition(item) == AD(item.name, item.data_type)

\* config['schemas'][table_name] raises KeyError for an undeclared table.
IsDeclared(yaml, table_name) == table_name \in DOMAIN yaml.schemas

\* config.get('global_indexes', {}).get(table_name, [])
GlobalIndexesConfig(yaml, table_name) ==
    IF table_name \in DOMAIN yaml.global_indexes
    THEN yaml.global_indexes[table_name] ELSE <<>>

_get_table_metadata(yaml, table_name) ==
    [schema |-> _build_keys(yaml.schemas[table_name]),
     global_indexes |->
         _build_secondary_indexes(GlobalIndexesConfig(yaml, table_name))]

\* The namespace is prefixed to the table name.
get_table_name(config, table_name) == config.namespace.s \o table_name

\* Strips leading characters that occur in the namespace (str.lstrip).
RECURSIVE LStrip(_, _)
LStrip(name, chars) ==
    IF name # <<>> /\ Head(name) \in chars THEN LStrip(Tail(name), chars) ELSE name

get_reverse_table_name_lstrip(config, table_name) ==
    LStrip(table_name, { config.namespace.s[i] : i \in DOMAIN config.namespace.s })

\* table_name[prefix_length:], lines 130-131: an empty string when the name
\* is no longer than the namespace.
get_reverse_table_name(config, table_name) ==
    LET prefix_length == Len(config.namespace.s)
    IN  IF prefix_length >= Len(table_name) THEN <<>>
        ELSE SubSeq(table_name, prefix_length + 1, Len(table_name))

_get_or_default_throughput(config, throughput) ==
    IF throughput = NotGiven
    THEN config.yaml.default_throughput
    ELSE throughput

_get_table_init_data(config, table_name, throughput) ==
    [table_name |-> get_table_name(config, table_name),
     throughput |-> _get_or_default_throughput(config, throughput),
     schema |-> _get_table_metadata(config.yaml, table_name).schema,
     global_indexes |-> _get_table_metadata(config.yaml, table_name).global_indexes]

NoHandle ==
    [table_name |-> <<>>, throughput |-> NotGiven, schema |-> <<>>,
     global_indexes |-> <<>>]

-----------------------------------------------------------------------------
(* Primary-key validation (lines 228-244).                                 *)

\* Insert x into the sorted list after every entry whose key is not larger:
\* with SortByName this is Python's stable sorted(..., key=AttributeName).
RECURSIVE InsertByName(_, _)
InsertByName(x, sorted) ==
    IF sorted = <<>> THEN << x >>
    ELSE IF AttrRank(x.AttributeName) < AttrRank(Head(sorted).AttributeName)
         THEN << x >> \o sorted
         ELSE << Head(sorted) >> \o InsertByName(x, Tail(sorted))

RECURSIVE SortByName(_)
SortByName(list) ==
    IF list = <<>> THEN <<>>
    ELSE InsertByName(list[Len(list)], SortByName(SubSeq(list, 1, Len(list) - 1)))

SeqRange(list) == { list[i] : i \in 1..Len(list) }

\* A validation that compares the key schema only.
_validate_schema_kinds_only(schema, metadata) ==
    IF SortByName(metadata.KeySchema)
         # SortByName([i \in 1..Len(schema) |-> FieldSchema(schema[i])])
    THEN "Mismatched schema"
    ELSE ""

\* A validation that compares every upstream attribute definition, key
\* attribute or not.
_validate_schema_all_attributes(schema, metadata) ==
    LET local_schema == [i \in 1..Len(schema) |-> FieldSchema(schema[i])]
        local_attributes == [i \in 1..Len(schema) |-> FieldDefinition(schema[i])]
    IN  IF SortByName(metadata.KeySchema) # SortByName(local_schema)
        THEN "Mismatched schema"
        ELSE IF SortByName(metadata.AttributeDefinitions) # SortByName(local_attributes)
             THEN "Mismatched attributes"
             ELSE ""

\* "" when the schema matches, else which comparison raised
\* UpdateTableException.
_validate_schema(schema, metadata) ==
    LET upstream_schema == metadata.KeySchema
        upstream_schema_attributes ==
            { i.AttributeName : i \in SeqRange(upstream_schema) }
        upstream_attributes ==
            SelectSeq(metadata.AttributeDefinitions,
                      LAMBDA item : item.AttributeName \in upstream_schema_attributes)
        local_schema == [i \in 1..Len(schema) |-> FieldSchema(schema[i])]
        local_schema_attributes ==
            { i.AttributeName : i \in SeqRange(local_schema) }
        local_attributes ==
            SelectSeq([i \in 1..Len(schema) |-> FieldDefinition(schema[i])],
                      LAMBDA item : item.AttributeName \in local_schema_attributes)
    IN  IF SortByName(upstream_schema) # SortByName(local_schema)
        THEN "Mismatched schema"
        ELSE IF SortByName(upstream_attributes) # SortByName(local_attributes)
             THEN "Mismatched attributes"
             ELSE ""

-----------------------------------------------------------------------------
(* Invocations of create_table and update_table.                           *)

NoError == [status |-> 0, error_code |-> "", body |-> <<>>]

\* How an invocation ended: a returned handle or a raised exception.
Outcome(kind, e) ==
    [kind |-> kind, status |-> e.status, error_code |-> e.error_code,
     body |-> e.body]

NoResult == Outcome("none", NoError)
Returned == Outcome("handle", NoError)
Raised(kind) == Outcome(kind, NoError)

\* A call made on the table handle.
Call(op, index, throughput) ==
    [op |-> op, index |-> index, throughput |-> throughput]

NoArgs == [op |-> "", table_name |-> <<>>, throughput |-> NotGiven]
NoMetadata == [KeySchema |-> <<>>, AttributeDefinitions |-> <<>>,
               GlobalSecondaryIndexes |-> {}, ProvisionedThroughput |-> NotGiven]
NoTodo == [local |-> {}, upstream |-> {}]
NoPrev ==
    [clean |-> FALSE, partial |-> FALSE, applied |-> FALSE, table_name |-> <<>>, gsi |-> {}]

Config == cached_config[1]

\* History: whether the invocation that just ended was an update_table that
\* returned with no call failing (clean) or one that stopped at a failed index
\* call (partial) after some index call had gone through (applied), and the
\* index set it left upstream.
IndexOps == {"create_gsi", "update_gsi", "delete_gsi"}

Summary(p) ==
    IF args[p].op = "update_table" /\ result[p].kind = "handle" /\ failed[p] = <<>>
    THEN [clean |-> TRUE, partial |-> FALSE, applied |-> FALSE,
          table_name |-> args[p].table_name, gsi |-> upstream.gsi]
    ELSE IF /\ args[p].op = "update_table" /\ failed[p] # <<>>
            /\ calls[p][Len(calls[p])].op \in IndexOps
         THEN [clean |-> FALSE, partial |-> TRUE,
               applied |-> \E i \in 1..(Len(calls[p]) - 1) : calls[p][i].op \in IndexOps,
               table_name |-> args[p].table_name, gsi |-> upstream.gsi]
         ELSE NoPrev

\* An except clause that raises TableAlreadyExistsException for every error.
create_table_except_any(e) ==
    [kind |-> "TableAlreadyExistsException", status |-> 0,
     error_code |-> "", body |-> e.body]

\* create_table's except clause (lines 222-225).
create_table_except(e) ==
    IF e.status = 400 /\ e.error_code = "ResourceInUseException"
    THEN [kind |-> "TableAlreadyExistsException", status |-> 0,
          error_code |-> "", body |-> e.body]
    ELSE Outcome("JSONResponseError", e)

\* update_table's except clause (lines 277-281): a "not found" error becomes
\* UnknownTableException; for any other error the clause ends without
\* raising and control reaches `return db_table`.
update_table_except(e) ==
    IF e.status = 400 /\ e.error_code = "ResourceNotFoundException"
    THEN Raised("UnknownTableException")
    ELSE Returned

\* The throughput update_table hands to db_table.update (line 256).
UpdateArgument(p) == args[p].throughput

\* dict((index.name, index) for index in db_table.global_indexes), line 250
local_global_indexes_by_name(p) ==
    [n \in { i.name : i \in SeqRange(db_table[p].global_indexes) } |->
        CHOOSE i \in SeqRange(db_table[p].global_indexes) : i.name = n]

\* Loops that end after the first one: the delete loop never runs.
LoopPc_no_deletes(t) == IF t.local # {} THEN "indexes" ELSE "done"

\* Loops in the other order: the upstream names are visited first.
LoopPc_deletes_first(t) ==
    IF t.upstream # {} THEN "deletes"
    ELSE IF t.local # {} THEN "indexes" ELSE "done"

\* Where the two for-loops of lines 260-275 stand once `t` is left to visit.
LoopPc(t) ==
    IF t.local # {} THEN "indexes"
    ELSE IF t.upstream # {} THEN "deletes" ELSE "done"

\* What the service may answer to a call: Ok only when the call is valid.
Ok == NoError
Answers(valid) == (IF valid THEN { Ok } ELSE {}) \cup ServiceErrors

\* Entering a function: the previous invocation is over, its locals are gone.
Begin(p, op, table_name, throughput) ==
    /\ pc[p] \in {"idle", "done"}
    /\ prev' = [prev EXCEPT ![p] = IF pc[p] = "done" THEN Summary(p) ELSE NoPrev]
    /\ args' = [args EXCEPT ![p] =
                   [op |-> op, table_name |-> table_name, throughput |-> throughput]]
    /\ table_metadata' = [table_metadata EXCEPT ![p] = NoMetadata]
    /\ todo' = [todo EXCEPT ![p] = NoTodo]
    /\ UNCHANGED cfgVars

\* A lookup that asks the service about the table before giving up.
UndeclaredTable_describes(p) ==
    /\ pc' = [pc EXCEPT ![p] = "done"]
    /\ result' = [result EXCEPT ![p] = Raised("UnknownTableException")]
    /\ db_table' = [db_table EXCEPT ![p] = NoHandle]
    /\ calls' = [calls EXCEPT ![p] = << Call("describe", "", NotGiven) >>]
    /\ failed' = [failed EXCEPT ![p] = <<>>]
    /\ UNCHANGED upstream

\* A KeyError on the configuration became UnknownTableException (lines
\* 105-109 and 175-177): no handle was built and nothing was called.
UndeclaredTable(p) ==
    /\ pc' = [pc EXCEPT ![p] = "done"]
    /\ result' = [result EXCEPT ![p] = Raised("UnknownTableException")]
    /\ db_table' = [db_table EXCEPT ![p] = NoHandle]
    /\ calls' = [calls EXCEPT ![p] = <<>>]
    /\ failed' = [failed EXCEPT ![p] = <<>>]
    /\ UNCHANGED upstream

\* The table the service holds after a successful Table.create(**init).
CreatedTable(init) ==
    [exists |-> TRUE,
     KeySchema |-> [i \in 1..Len(init.schema) |-> FieldSchema(init.schema[i])],
     AttributeDefinitions |->
         [i \in 1..Len(init.schema) |-> FieldDefinition(init.schema[i])],
     gsi |-> { i.name : i \in SeqRange(init.global_indexes) },
     throughput |-> init.throughput]

\* create_table (lines 218-225): the handle's init data, then one create call.
\* The service answers ResourceInUseException exactly for an existing table,
\* apart from transient errors.
CreateTable(p, table_name, throughput, answer) ==
    /\ Begin(p, "create_table", table_name, throughput)
    /\ IF ~IsDeclared(Config.yaml, table_name)
       THEN UndeclaredTable(p)
       ELSE LET init == _get_table_init_data(Config, table_name, throughput)
            IN /\ answer \in (Answers(~upstream.exists) \ { NotFound })
               /\ answer = InUse => upstream.exists
               /\ pc' = [pc EXCEPT ![p] = "done"]
               /\ db_table' = [db_table EXCEPT ![p] = init]
               /\ calls' = [calls EXCEPT ![p] =
                              << Call("create_table", "", init.throughput) >>]
               /\ IF answer = Ok
                  THEN /\ failed' = [failed EXCEPT ![p] = <<>>]
                       /\ result' = [result EXCEPT ![p] = Returned]
                       /\ upstream' = CreatedTable(init)
                  ELSE /\ failed' = [failed EXCEPT ![p] = << answer >>]
                       /\ result' = [result EXCEPT ![p] = create_table_except(answer)]
                       /\ UNCHANGED upstream

\* get_table_columns (lines 167-177): config['columns'][table_name], no
\* handle and no call.
GetTableColumns(p, table_name) ==
    /\ Begin(p, "get_table_columns", table_name, NotGiven)
    /\ IF table_name \notin DOMAIN Config.yaml.columns
       THEN UndeclaredTable(p)
       ELSE /\ pc' = [pc EXCEPT ![p] = "done"]
            /\ result' = [result EXCEPT ![p] = Outcome("columns", NoError)]
            /\ db_table' = [db_table EXCEPT ![p] = NoHandle]
            /\ calls' = [calls EXCEPT ![p] = <<>>]
            /\ failed' = [failed EXCEPT ![p] = <<>>]
            /\ UNCHANGED upstream

\* get_table (lines 180-193): a handle built from the table's metadata, with
\* no throughput of its own and no call to the service.
GetTable(p, table_name) ==
    /\ Begin(p, "get_table", table_name, NotGiven)
    /\ IF ~IsDeclared(Config.yaml, table_name)
       THEN UndeclaredTable(p)
       ELSE /\ pc' = [pc EXCEPT ![p] = "done"]
            /\ result' = [result EXCEPT ![p] = Returned]
            /\ db_table' = [db_table EXCEPT ![p] =
                              [table_name |-> get_table_name(Config, table_name),
                               throughput |-> NotGiven,
                               schema |-> _get_table_metadata(Config.yaml, table_name).schema,
                               global_indexes |->
                                   _get_table_metadata(Config.yaml, table_name).global_indexes]]
            /\ calls' = [calls EXCEPT ![p] = <<>>]
            /\ failed' = [failed EXCEPT ![p] = <<>>]
            /\ UNCHANGED upstream

\* update_table, lines 249-250: build the handle from the configuration.
UpdateTableBegin(p, table_name, throughput) ==
    /\ Begin(p, "update_table", table_name, throughput)
    /\ IF ~IsDeclared(Config.yaml, table_name)
       THEN UndeclaredTable(p)
       ELSE /\ pc' = [pc EXCEPT ![p] = "describe"]
            /\ db_table' = [db_table EXCEPT ![p] =
                              _get_table_init_data(Config, table_name, throughput)]
            /\ result' = [result EXCEPT ![p] = NoResult]
            /\ calls' = [calls EXCEPT ![p] = <<>>]
            /\ failed' = [failed EXCEPT ![p] = <<>>]
            /\ UNCHANGED upstream

\* A call inside the try block raised JSONResponseError e (lines 277-281).
Except(p, call, e) ==
    /\ pc' = [pc EXCEPT ![p] = "done"]
    /\ calls' = [calls EXCEPT ![p] = Append(@, call)]
    /\ failed' = [failed EXCEPT ![p] = << e >>]
    /\ result' = [result EXCEPT ![p] = update_table_except(e)]
    /\ UNCHANGED <<upstream, table_metadata, todo>>

\* Lines 252-253: describe(), then _validate_schema.
Describe(p, answer) ==
    /\ pc[p] = "describe"
    /\ answer \in (Answers(upstream.exists) \ { InUse })
    /\ answer = NotFound => ~upstream.exists
    /\ UNCHANGED <<cfgVars, args, db_table, prev>>
    /\ IF answer # Ok
       THEN Except(p, Call("describe", "", NotGiven), answer)
       ELSE LET metadata ==
                    [KeySchema |-> upstream.KeySchema,
                     AttributeDefinitions |-> upstream.AttributeDefinitions,
                     GlobalSecondaryIndexes |-> upstream.gsi,
                     ProvisionedThroughput |-> upstream.throughput]
                mismatch == _validate_schema(db_table[p].schema, metadata)
            IN /\ table_metadata' = [table_metadata EXCEPT ![p] = metadata]
               /\ calls' = [calls EXCEPT ![p] =
                              Append(@, Call("describe", "", NotGiven))]
               /\ pc' = [pc EXCEPT ![p] = IF mismatch = "" THEN "update" ELSE "done"]
               /\ result' = [result EXCEPT ![p] =
                               IF mismatch = "" THEN NoResult
                               ELSE Raised("UpdateTableException")]
               /\ UNCHANGED <<upstream, todo, failed>>

\* Line 256: db_table.update(throughput=throughput), then line 258 and the
\* start of the loops.  boto's Table.update sends nothing and returns False
\* when the throughput it is given is false.
UpdateThroughput(p, answer) ==
    /\ pc[p] = "update"
    /\ answer \in Answers(TRUE)
    /\ ~UpdateArgument(p).given => answer = Ok
    /\ UNCHANGED <<cfgVars, args, db_table, prev>>
    /\ LET call == Call("update", "", UpdateArgument(p))
           loops == [local |-> DOMAIN local_global_indexes_by_name(p),
                     upstream |-> table_metadata[p].GlobalSecondaryIndexes]
       IN IF answer # Ok
          THEN Except(p, call, answer)
          ELSE /\ calls' = [calls EXCEPT ![p] = Append(@, call)]
               /\ upstream' = IF UpdateArgument(p).given
                              THEN [upstream EXCEPT !.throughput = UpdateArgument(p)]
                              ELSE upstream
               /\ todo' = [todo EXCEPT ![p] = loops]
               /\ pc' = [pc EXCEPT ![p] = LoopPc(loops)]
               /\ result' = [result EXCEPT ![p] =
                               IF LoopPc(loops) = "done" THEN Returned ELSE NoResult]
               /\ UNCHANGED <<table_metadata, failed>>

\* A test made against the service's present state, not the description.
MissingUpstream_live(p, index_name) == index_name \notin upstream.gsi

\* Line 261: the test that sends a local index to create rather than update.
MissingUpstream(p, index_name) ==
    index_name \notin table_metadata[p].GlobalSecondaryIndexes

\* A test that deletes every upstream index.
MissingLocally_always(p, index_name) == TRUE

\* A test that deletes no upstream index.
MissingLocally_never(p, index_name) == FALSE

\* Line 273: the test that sends an upstream index to delete.
MissingLocally(p, index_name) ==
    index_name \notin DOMAIN local_global_indexes_by_name(p)

\* The loop moved on to what is left in `rest`.
Continue(p, call, rest) ==
    /\ calls' = [calls EXCEPT ![p] = Append(@, call)]
    /\ todo' = [todo EXCEPT ![p] = rest]
    /\ pc' = [pc EXCEPT ![p] = LoopPc(rest)]
    /\ result' = [result EXCEPT ![p] =
                    IF LoopPc(rest) = "done" THEN Returned ELSE NoResult]
    /\ UNCHANGED <<table_metadata, failed>>

\* One pass of the loop of lines 260-270, for whichever local index the
\* dict yields next: create it when the snapshot lacks it, else update its
\* throughput.  The service refuses to create an index it already has and to
\* update one it does not have.
ReconcileIndex(p, index_name, answer) ==
    /\ pc[p] = "indexes"
    /\ index_name \in todo[p].local
    /\ UNCHANGED <<cfgVars, args, db_table, prev>>
    /\ LET index == local_global_indexes_by_name(p)[index_name]
           rest == [todo[p] EXCEPT !.local = @ \ { index_name }]
       IN IF MissingUpstream(p, index_name)
          THEN /\ answer \in Answers(index_name \notin upstream.gsi)
               /\ IF answer # Ok
                  THEN Except(p, Call("create_gsi", index_name, index.throughput),
                              answer)
                  ELSE /\ Continue(p, Call("create_gsi", index_name, index.throughput),
                                   rest)
                       /\ upstream' = [upstream EXCEPT !.gsi = @ \cup { index_name }]
          ELSE /\ answer \in Answers(index_name \in upstream.gsi)
               /\ IF answer # Ok
                  THEN Except(p, Call("update_gsi", index_name, index.throughput),
                              answer)
                  ELSE /\ Continue(p, Call("update_gsi", index_name, index.throughput),
                                   rest)
                       /\ UNCHANGED upstream

\* One pass of the loop of lines 272-275 that reaches the delete call.  The
\* service refuses to delete an index it does not have.
DeleteIndex(p, index_name, answer) ==
    /\ pc[p] = "deletes"
    /\ index_name \in todo[p].upstream
    /\ MissingLocally(p, index_name)
    /\ answer \in Answers(index_name \in upstream.gsi)
    /\ UNCHANGED <<cfgVars, args, db_table, prev>>
    /\ LET rest == [todo[p] EXCEPT !.upstream = @ \ { index_name }]
       IN IF answer # Ok
          THEN Except(p, Call("delete_gsi", index_name, NotGiven), answer)
          ELSE /\ Continue(p, Call("delete_gsi", index_name, NotGiven), rest)
               /\ upstream' = [upstream EXCEPT !.gsi = @ \ { index_name }]

\* One pass of the loop of lines 272-275 for an index that is still declared:
\* nothing is called.
KeepIndex(p, index_name) ==
    /\ pc[p] = "deletes"
    /\ index_name \in todo[p].upstream
    /\ ~MissingLocally(p, index_name)
    /\ UNCHANGED <<cfgVars, args, db_table, prev, upstream, calls, table_metadata,
                   failed>>
    /\ LET rest == [todo[p] EXCEPT !.upstream = @ \ { index_name }]
       IN /\ todo' = [todo EXCEPT ![p] = rest]
          /\ pc' = [pc EXCEPT ![p] = LoopPc(rest)]
          /\ result' = [result EXCEPT ![p] =
                          IF LoopPc(rest) = "done" THEN Returned ELSE NoResult]

-----------------------------------------------------------------------------
(* The table operations run by one caller at a time.                       *)

IdleTables ==
    /\ pc = [p \in Procs |-> "idle"]
    /\ args = [p \in Procs |-> NoArgs]
    /\ db_table = [p \in Procs |-> NoHandle]
    /\ table_metadata = [p \in Procs |-> NoMetadata]
    /\ todo = [p \in Procs |-> NoTodo]
    /\ calls = [p \in Procs |-> <<>>]
    /\ failed = [p \in Procs |-> <<>>]
    /\ result = [p \in Procs |-> NoResult]
    /\ prev = [p \in Procs |-> NoPrev]

Init ==
    /\ \E yaml \in Yamls : cached_config = << LoadedConfig(yaml) >>
    /\ environ = EnvRequired
    /\ cfg_call = NoCfgCall
    /\ upstream \in Upstreams
    /\ IdleTables

TableStep(p) ==
    \/ \E n \in TableNames, tp \in ThroughputArgs, a \in Answers(TRUE) :
          CreateTable(p, n, tp, a)
    \/ \E n \in TableNames, tp \in ThroughputArgs : UpdateTableBegin(p, n, tp)
    \/ \E a \in Answers(TRUE) : Describe(p, a)
    \/ \E a \in Answers(TRUE) : UpdateThroughput(p, a)
    \/ \E n \in IndexNames, a \in Answers(TRUE) : ReconcileIndex(p, n, a)
    \/ \E n \in IndexNames, a \in Answers(TRUE) : DeleteIndex(p, n, a)
    \/ \E n \in IndexNames : KeepIndex(p, n)
    \/ \E n \in TableNames : GetTableColumns(p, n)
    \/ \E n \in TableNames : GetTable(p, n)

Next == \E p \in SeqProcs : TableStep(p)

Spec == Init /\ [][Next]_vars

-----------------------------------------------------------------------------
(* Vocabulary of the properties.                                           *)

IsUpdate(p) == args[p].op = "update_table"
IsCreate(p) == args[p].op = "create_table"
Done(p) == pc[p] = "done"

\* The invocation returned its handle and none of its calls failed.
FailureFree(p) == Done(p) /\ result[p].kind = "handle" /\ failed[p] = <<>>

\* describe() returned a description to this invocation.
Described(p) == table_metadata[p].KeySchema # <<>>

\* The names of the global indexes the YAML declares for the table.
LocalNames(p) ==
    { d.name : d \in SeqRange(GlobalIndexesConfig(Config.yaml, args[p].table_name)) }

\* The names of the global indexes in the description describe() returned.
SnapshotNames(p) == table_metadata[p].GlobalSecondaryIndexes

\* The declared primary key and the described one, as sets of pairs.
LocalKinds(p) ==
    { << d.name, FieldAttrType(d.type) >> :
        d \in SeqRange(Config.yaml.schemas[args[p].table_name]) }
LocalTypes(p) ==
    { << d.name, DynamoType(d.data_type) >> :
        d \in SeqRange(Config.yaml.schemas[args[p].table_name]) }
UpstreamKinds(p) ==
    { << k.AttributeName, k.KeyType >> : k \in SeqRange(table_metadata[p].KeySchema) }
UpstreamTypes(p) ==
    { << a.AttributeName, a.AttributeType >> :
        a \in { d \in SeqRange(table_metadata[p].AttributeDefinitions) :
                  \E k \in SeqRange(table_metadata[p].KeySchema) :
                      k.AttributeName = d.AttributeName } }

PrimaryKeyDiffers(p) ==
    LocalKinds(p) # UpstreamKinds(p) \/ LocalTypes(p) # UpstreamTypes(p)

\* The positions of the calls of one kind, and of one kind on one index.
CallsOf(p, op) == { i \in 1..Len(calls[p]) : calls[p][i].op = op }
IndexCalls(p, op, n) == { i \in CallsOf(p, op) : calls[p][i].index = n }

MutatingOps == {"update", "create_gsi", "update_gsi", "delete_gsi", "create_table"}

\* The service holds what describe() reported.
UpstreamAsDescribed(p) ==
    /\ upstream.KeySchema = table_metadata[p].KeySchema
    /\ upstream.AttributeDefinitions = table_metadata[p].AttributeDefinitions
    /\ upstream.gsi = table_metadata[p].GlobalSecondaryIndexes
    /\ upstream.throughput = table_metadata[p].ProvisionedThroughput

-----------------------------------------------------------------------------
\* C1: whenever update_table finds the described primary key different from
\* the declared one, it ends with UpdateTableException, describe is the only
\* call it made (no throughput update, no index create, update or delete),
\* and the upstream table is as it was described.
C1_MismatchAbortsBeforeMutation ==
    \A p \in Procs :
        (IsUpdate(p) /\ Described(p) /\ PrimaryKeyDiffers(p)) =>
            /\ Done(p)
            /\ result[p] = Raised("UpdateTableException")
            /\ \A op \in MutatingOps : CallsOf(p, op) = {}
            /\ UpstreamAsDescribed(p)

C1_Witness ==
    \E p \in Procs :
        /\ IsUpdate(p) /\ Described(p) /\ PrimaryKeyDiffers(p)
        /\ LocalKinds(p) = UpstreamKinds(p)
        /\ result[p].kind = "UpdateTableException"
        /\ upstream.gsi # LocalNames(p)

\* C2: a failure-free update_table that passed validation made exactly one
\* create-index call per name declared and not described, one index
\* throughput-update call per name declared and described, one delete-index
\* call per name described and not declared, and no other index call.
C2_ExactReconciliationCalls ==
    \A p \in Procs :
        (IsUpdate(p) /\ FailureFree(p)) =>
            \A n \in IndexNames :
                /\ Cardinality(IndexCalls(p, "create_gsi", n)) =
                     (IF n \in LocalNames(p) \ SnapshotNames(p) THEN 1 ELSE 0)
                /\ Cardinality(IndexCalls(p, "update_gsi", n)) =
                     (IF n \in LocalNames(p) \cap SnapshotNames(p) THEN 1 ELSE 0)
                /\ Cardinality(IndexCalls(p, "delete_gsi", n)) =
                     (IF n \in SnapshotNames(p) \ LocalNames(p) THEN 1 ELSE 0)

C2_Witness ==
    \E p \in Procs :
        /\ IsUpdate(p) /\ FailureFree(p)
        /\ LocalNames(p) = {"A", "B"}
        /\ SnapshotNames(p) = {"B", "C"}
        /\ IndexCalls(p, "create_gsi", "A") # {}
        /\ IndexCalls(p, "update_gsi", "B") # {}
        /\ IndexCalls(p, "delete_gsi", "C") # {}

\* "Table not found": the error update_table translates.
IsNotFound(e) == e.status = 400 /\ e.error_code = "ResourceNotFoundException"

\* C3: when a call of update_table failed with a service error other than
\* "table not found", the invocation ends by raising that very error; it never
\* returns a handle after a failed call.
C3_ServiceErrorsPropagate ==
    \A p \in Procs :
        (IsUpdate(p) /\ Done(p) /\ failed[p] # <<>>) =>
            /\ result[p].kind # "handle"
            /\ ~IsNotFound(failed[p][1]) =>
                  result[p] = Outcome("JSONResponseError", failed[p][1])

\* C4: of two update_table runs in succession on the same table, both
\* without failure, the first left upstream exactly the declared index names,
\* and the second made no create-index and no delete-index call and left the
\* same index set.
C4_ReconciliationIdempotent ==
    \A p \in Procs :
        (IsUpdate(p) /\ FailureFree(p) /\ prev[p].clean
           /\ prev[p].table_name = args[p].table_name) =>
            /\ prev[p].gsi = LocalNames(p)
            /\ CallsOf(p, "create_gsi") = {}
            /\ CallsOf(p, "delete_gsi") = {}
            /\ upstream.gsi = prev[p].gsi

C4_Witness ==
    \E p \in Procs :
        /\ IsUpdate(p) /\ FailureFree(p) /\ prev[p].clean
        /\ prev[p].table_name = args[p].table_name
        /\ Cardinality(CallsOf(p, "update_gsi")) = 2
        /\ upstream.gsi = {"A", "B"}

\* The throughput an invocation resolves to: the argument when one is given,
\* else the configuration's default_throughput.
ResolvedThroughput(p) ==
    IF args[p].throughput.given THEN args[p].throughput
    ELSE Config.yaml.default_throughput

\* C5: every update_table that passed validation makes a primary-table
\* throughput update, and the throughput of that update is the resolved one,
\* never the "not given" marker.
C5_PrimaryUpdateUsesResolvedThroughput ==
    \A p \in Procs :
        IsUpdate(p) =>
            /\ (Described(p) /\ pc[p] \in {"indexes", "deletes"}) =>
                  CallsOf(p, "update") # {}
            /\ \A i \in CallsOf(p, "update") :
                  /\ calls[p][i].throughput = ResolvedThroughput(p)
                  /\ calls[p][i].throughput # NotGiven

\* The kind of the call that failed: the last one made.
FailedOp(p) == calls[p][Len(calls[p])].op

\* C6: in update_table a "not found" answer to describe becomes
\* UnknownTableException; no other service error is translated (a "not found"
\* answer to a later call is not) and none is swallowed.
C6_OnlyDescribeNotFoundTranslated ==
    \A p \in Procs :
        (IsUpdate(p) /\ Done(p) /\ failed[p] # <<>>) =>
            /\ (FailedOp(p) = "describe" /\ IsNotFound(failed[p][1])) =>
                  result[p] = Raised("UnknownTableException")
            /\ result[p].kind = "UnknownTableException" =>
                  (FailedOp(p) = "describe" /\ IsNotFound(failed[p][1]))
            /\ result[p].kind # "handle"

\* The service said the table exists already.
IsInUse(e) == e.status = 400 /\ e.error_code = "ResourceInUseException"

\* C7: create_table raises TableAlreadyExistsException with the service's
\* error body when the create call fails with 400 ResourceInUseException,
\* raises any other service error unchanged, returns a handle only when the
\* create call succeeded, and a failed create_table leaves upstream as it was.
C7_CreateTableErrors ==
    /\ [](\A p \in Procs :
            (IsCreate(p) /\ Done(p)) =>
                /\ (failed[p] # <<>> /\ IsInUse(failed[p][1])) =>
                      /\ result[p].kind = "TableAlreadyExistsException"
                      /\ result[p].body = failed[p][1].body
                /\ (failed[p] # <<>> /\ ~IsInUse(failed[p][1])) =>
                      result[p] = Outcome("JSONResponseError", failed[p][1])
                /\ result[p].kind = "handle" =>
                      (failed[p] = <<>> /\ CallsOf(p, "create_table") # {}))
    /\ [][\A p \in Procs :
            (args'[p].op = "create_table" /\ result'[p].kind # "handle") =>
                upstream' = upstream]_vars

C7_Witness ==
    \E p \in Procs :
        /\ IsCreate(p) /\ Done(p)
        /\ failed[p] = << InUse >>
        /\ result[p].kind = "TableAlreadyExistsException"
        /\ result[p].body = InUse.body
        /\ upstream.exists

\* C12: after an update_table that stopped at a failed index call, leaving
\* upstream partially reconciled, a following update_table on the same
\* table that runs without failure leaves upstream exactly the declared
\* index names.
C12_RetryAfterPartialFailureConverges ==
    \A p \in Procs :
        (IsUpdate(p) /\ FailureFree(p) /\ prev[p].partial
           /\ prev[p].table_name = args[p].table_name) =>
            upstream.gsi = LocalNames(p)

C12_Witness ==
    \E p \in Procs :
        /\ IsUpdate(p) /\ FailureFree(p) /\ prev[p].partial
        /\ prev[p].table_name = args[p].table_name
        /\ prev[p].applied
        /\ prev[p].gsi = {"A", "B", "C"}
        /\ LocalNames(p) = {"A", "B"}
        /\ table_metadata[p].GlobalSecondaryIndexes = prev[p].gsi
        /\ upstream.gsi = LocalNames(p)

\* A table name that no section of the configuration declares.
Undeclared(table_name) ==
    /\ ~IsDeclared(Config.yaml, table_name)
    /\ table_name \notin DOMAIN Config.yaml.columns

\* C14: for a table name the configuration does not declare, get_table_columns,
\* get_table and update_table raise UnknownTableException without any call
\* to the service.
C14_UndeclaredTableRaisesWithoutCalls ==
    \A p \in Procs :
        (/\ Done(p)
         /\ args[p].op \in {"get_table_columns", "get_table", "update_table"}
         /\ Undeclared(args[p].table_name)) =>
            /\ result[p].kind = "UnknownTableException"
            /\ calls[p] = <<>>
            /\ db_table[p] = NoHandle

C14_Witness ==
    \E p \in Procs :
        /\ Done(p)
        /\ args[p].op = "get_table"
        /\ Undeclared(args[p].table_name)
        /\ upstream.exists
        /\ result[p].kind = "UnknownTableException"

\* C15: validation of the primary key raises UpdateTableException exactly
\* when the declared and described keys differ as sets of (name, kind) pairs
\* or as sets of (name, data type) pairs, the described pairs taken from
\* the attribute definitions of key attributes only; attribute definitions
\* of other attributes play no part.
C15_ValidationAcceptsExactlyEqualKeys ==
    \A p \in Procs :
        (IsUpdate(p) /\ Described(p)) =>
            (result[p].kind = "UpdateTableException" <=> PrimaryKeyDiffers(p))

C15_Witness ==
    \E p \in Procs :
        /\ IsUpdate(p) /\ Described(p)
        /\ ~PrimaryKeyDiffers(p)
        /\ Len(table_metadata[p].KeySchema) = 2
        /\ Len(table_metadata[p].AttributeDefinitions) = 3
        /\ table_metadata[p].KeySchema[1].AttributeName
              # Config.yaml.schemas[args[p].table_name][1].name
        /\ pc[p] = "update"

\* The phase of update_table a call belongs to.
Phase(op) ==
    CASE op = "describe" -> 1
      [] op = "update" -> 2
      [] op \in {"create_gsi", "update_gsi"} -> 3
      [] op = "delete_gsi" -> 4

\* C16: the calls of one update_table invocation come in phase order:
\* describe first and exactly once, the primary throughput update only after
\* validation has accepted the key, then the index create and update calls,
\* and delete calls only once every declared index has had its create or
\* update call.
C16_CallsInPhaseOrder ==
    \A p \in Procs :
        (IsUpdate(p) /\ IsDeclared(Config.yaml, args[p].table_name)) =>
            /\ \A i, j \in 1..Len(calls[p]) :
                   i < j => /\ Phase(calls[p][i].op) <= Phase(calls[p][j].op)
                            /\ Phase(calls[p][j].op) > 2
                                  \/ Phase(calls[p][i].op) < Phase(calls[p][j].op)
            /\ pc[p] # "describe" =>
                   /\ Cardinality(CallsOf(p, "describe")) = 1
                   /\ calls[p][1].op = "describe"
            /\ Len(calls[p]) > 1 => (Described(p) /\ ~PrimaryKeyDiffers(p))
            /\ CallsOf(p, "delete_gsi") # {} =>
                   \A n \in LocalNames(p) :
                       \E i \in IndexCalls(p, "create_gsi", n)
                                  \cup IndexCalls(p, "update_gsi", n) :
                           \A j \in CallsOf(p, "delete_gsi") : i < j

C16_Witness ==
    \E p \in Procs :
        /\ IsUpdate(p) /\ FailureFree(p)
        /\ Len(calls[p]) = 5
        /\ calls[p][3].op = "create_gsi"
        /\ calls[p][4].op = "update_gsi"
        /\ calls[p][5].op = "delete_gsi"

\* The throughput the configuration gives a declared index: its own when
\* it declares one, else default_throughput.
DeclaredIndexThroughput(p, n) ==
    LET declared ==
            { d \in SeqRange(GlobalIndexesConfig(Config.yaml, args[p].table_name)) :
                d.name = n }
        d == CHOOSE d \in declared : TRUE
    IN  IF d.throughput.given THEN d.throughput
        ELSE Config.yaml.default_throughput

\* C17: every index throughput-update call and every create-index call of
\* update_table carries the throughput the configuration gives that index:
\* the declared one, or default_throughput when none is declared.
C17_IndexCallsUseDeclaredThroughput ==
    \A p \in Procs :
        IsUpdate(p) =>
            \A i \in CallsOf(p, "update_gsi") \cup CallsOf(p, "create_gsi") :
                calls[p][i].throughput = DeclaredIndexThroughput(p, calls[p][i].index)

-----------------------------------------------------------------------------
(* The configuration store on its own: loads and reads in any order.       *)

InitConfig ==
    /\ cached_config = <<>>
    /\ environ \in Environments
    /\ cfg_call = NoCfgCall
    /\ upstream = NoTable
    /\ IdleTables

NextConfig ==
    \/ \E kwargs \in KwargsSet : SetConfig(kwargs)
    \/ \E kwargs \in KwargsSet : GetConfig(kwargs)

SpecConfig == InitConfig /\ [][NextConfig]_vars

\* The last call ran the load of lines 22-60 with cfg_call.kwargs.
Loaded == cfg_call.loaded

\* Neither the argument nor the environment variable gives the field a value.
Unresolved(f) == ~Truthy(cfg_call.kwargs[f]) /\ ~Truthy(environ[f])

\* The port in effect: the argument unless it is empty, else the variable.
PortGiven ==
    IF Truthy(cfg_call.kwargs["port"]) THEN cfg_call.kwargs["port"]
    ELSE environ["port"]

Digits == {"0", "1", "2", "3", "4", "5", "6", "7", "8", "9"}

IsNumeric(v) ==
    \/ v.t \in {"int", "bool"}
    \/ v.t = "str" /\ v.s # <<>> /\ \A i \in 1..Len(v.s) : v.s[i] \in Digits

\* C8: a load raises ConfigurationError whenever the namespace, the access
\* key or the secret key has no value from the argument and none from the
\* environment, and whenever a port is given (argument or environment, not
\* empty) that is not numeric; no call is made on any table; after a
\* successful load a given port is stored as an integer.
C8_LoadRejectsMissingOrMalformed ==
    Loaded =>
        /\ (\E f \in Required : Unresolved(f)) =>
              cfg_call.result = "ConfigurationError"
        /\ (Truthy(PortGiven) /\ ~IsNumeric(PortGiven)) =>
              cfg_call.result = "ConfigurationError"
        /\ (cfg_call.result = "ok" /\ Truthy(PortGiven)) =>
              cached_config[1].port.t = "int"
        /\ \A p \in Procs : calls[p] = <<>>
        /\ upstream = NoTable

C8_Witness ==
    /\ Loaded
    /\ cfg_call.op = "set_config"
    /\ Unresolved("aws_secret_access_key")
    /\ ~Unresolved("namespace") /\ ~Unresolved("aws_access_key_id")
    /\ cfg_call.result = "ConfigurationError"

\* A configuration a successful load can have produced.
ValidConfig(config) ==
    \A f \in Required : Truthy(config[f])

\* C9: the cache only ever holds a configuration of a successful load (a
\* load that raised ConfigurationError does not leave its configuration
\* there), and get_config never returns a configuration whose namespace,
\* access key or secret key is missing.
C9_CacheHoldsOnlyValidConfig ==
    /\ cached_config # <<>> => ValidConfig(cached_config[1])
    /\ cfg_call.returned # <<>> => ValidConfig(cfg_call.returned[1])

\* The stored value is the expected one, or its integer value for the port
\* of a successful load.
SameField(f, stored, expected) ==
    \/ stored = expected
    \/ /\ f = "port" /\ cfg_call.result = "ok"
       /\ stored.t = "int" /\ IsNumeric(expected) /\ int(expected)[2] = stored

\* C10: after a load every field holds the explicit argument whenever one
\* was supplied, whatever its value (False, 0 and the empty string
\* included), and the environment variable otherwise.
C10_ExplicitArgumentWins ==
    Loaded =>
        \A f \in Fields :
            SameField(f, cached_config[1][f],
                      IF cfg_call.kwargs[f] # PyNone THEN cfg_call.kwargs[f]
                      ELSE environ[f])

\* The stored value is the argument, or its integer value for a port.
Stores(f, stored, argument) ==
    \/ stored = argument
    \/ /\ f = "port" /\ stored.t = "int"
       /\ IsNumeric(argument) /\ int(argument)[2] = stored

\* C19: get_config loads only when the cache is empty; once the cache holds
\* a configuration every get_config returns a value equal to it and leaves
\* it alone, whatever arguments it is passed; a set_config replaces the
\* cache with the configuration resolved from its own arguments.
C19_CacheReusedUntilSetConfig ==
    /\ [][(cfg_call'.op = "get_config" /\ cached_config # <<>>) =>
             /\ ~cfg_call'.loaded
             /\ cached_config' = cached_config
             /\ cfg_call'.returned = cached_config]_vars
    /\ [][(cfg_call'.op = "get_config" /\ cfg_call'.loaded) =>
             cached_config = <<>>]_vars
    /\ [][(cfg_call'.op = "set_config") =>
             /\ cfg_call'.loaded
             /\ cached_config' # <<>>
             /\ \A f \in Fields :
                    Truthy(cfg_call'.kwargs[f]) =>
                        Stores(f, cached_config'[1][f], cfg_call'.kwargs[f])]_vars

C19_Witness ==
    /\ cfg_call.op = "get_config"
    /\ ~cfg_call.loaded
    /\ ValidConfig(cached_config[1])
    /\ Truthy(cfg_call.kwargs["namespace"])
    /\ cfg_call.kwargs["namespace"] # cached_config[1].namespace
    /\ cfg_call.returned = cached_config

-----------------------------------------------------------------------------
(* The configuration store with callers that mutate what they were given.  *)

NextCopy ==
    \/ \E kwargs \in KwargsSet : SetConfig(kwargs)
    \/ \E kwargs \in KwargsSet : GetConfig(kwargs)
    \/ \E m \in Mutations : CallerMutates(m)

SpecCopy == InitConfig /\ [][NextCopy]_vars

\* C11: get_config returns a deep copy of the cache: the value returned
\* equals the cached configuration, and no mutation a caller applies to it
\* (a top-level field or the nested table declarations) changes the cache,
\* hence the value of any later get_config.
C11_ReturnedCopyIsDetached ==
    /\ []((cfg_call.op = "get_config" /\ cfg_call.returned # <<>>) =>
            cfg_call.returned = cached_config)
    /\ [][cfg_call'.op = "caller_mutation" => cached_config' = cached_config]_vars

C11_Witness ==
    /\ cfg_call.op = "caller_mutation"
    /\ cfg_call.returned[1].yaml # cached_config[1].yaml
    /\ cfg_call.returned[1].namespace # cached_config[1].namespace
    /\ cached_config[1].yaml = ConfigYaml

-----------------------------------------------------------------------------
(* Table names: get_table_name and get_reverse_table_name (lines 123-131). *)

MaxNamespaceLen == 2
MaxNameLen == 3

Namespaces == StringsUpTo({"n", "_"}, MaxNamespaceLen) \ { <<>> }
Names == StringsUpTo({"n", "_", "t"}, MaxNameLen)

NoNameCall == [op |-> "", table_name |-> <<>>, returned |-> <<>>]

GetTableName(table_name) ==
    /\ cfg_call' = [op |-> "get_table_name", table_name |-> table_name,
                    returned |-> get_table_name(Config, table_name)]
    /\ UNCHANGED <<cached_config, environ>>
    /\ UNCHANGED tblVars

GetReverseTableName(table_name) ==
    /\ cfg_call' = [op |-> "get_reverse_table_name", table_name |-> table_name,
                    returned |-> get_reverse_table_name(Config, table_name)]
    /\ UNCHANGED <<cached_config, environ>>
    /\ UNCHANGED tblVars

InitNames ==
    /\ \E yaml \in Yamls, ns \in Namespaces :
          cached_config = << [LoadedConfig(yaml) EXCEPT !.namespace = PyStr(ns)] >>
    /\ environ = EnvRequired
    /\ cfg_call = NoNameCall
    /\ upstream = NoTable
    /\ IdleTables

NextNames ==
    \/ \E table_name \in Names : GetTableName(table_name)
    \/ \E table_name \in Names \cup { cfg_call.returned } :
          GetReverseTableName(table_name)

SpecNames == InitNames /\ [][NextNames]_vars

\* Whether `part` occurs in `whole` as a contiguous run of characters.
Contains(whole, part) ==
    \E i \in 1..(Len(whole) - Len(part) + 1) :
        SubSeq(whole, i, i + Len(part) - 1) = part

\* C13: for a table name that does not contain the namespace, get_table_name
\* returns the namespace followed by the name, and get_reverse_table_name
\* applied to that result returns the name.
C13_TableNameRoundTrip ==
    /\ []((cfg_call.op = "get_table_name"
             /\ ~Contains(cfg_call.table_name, Config.namespace.s)) =>
            /\ Len(cfg_call.returned) =
                   Len(Config.namespace.s) + Len(cfg_call.table_name)
            /\ \A i \in 1..Len(Config.namespace.s) :
                   cfg_call.returned[i] = Config.namespace.s[i]
            /\ \A i \in 1..Len(cfg_call.table_name) :
                   cfg_call.returned[Len(Config.namespace.s) + i] =
                       cfg_call.table_name[i])
    /\ [][(/\ cfg_call.op = "get_table_name"
           /\ ~Contains(cfg_call.table_name, Config.namespace.s)
           /\ cfg_call'.op = "get_reverse_table_name"
           /\ cfg_call'.table_name = cfg_call.returned) =>
              cfg_call'.returned = cfg_call.table_name]_vars

C13_Witness ==
    /\ cfg_call.op = "get_reverse_table_name"
    /\ Config.namespace.s = <<"n", "_">>
    /\ cfg_call.table_name = <<"n", "_", "n", "t">>
    /\ cfg_call.returned = <<"n", "t">>

-----------------------------------------------------------------------------
(* Two callers running update_table on the same table at the same time.    *)

InitConcurrent ==
    /\ \E yaml \in Yamls :
          /\ Len(yaml.schemas[Declared]) = 1
          /\ cached_config = << LoadedConfig(yaml) >>
    /\ environ = EnvRequired
    /\ cfg_call = NoCfgCall
    /\ upstream \in { u \in Upstreams :
                        /\ u.exists
                        /\ u.KeySchema = << KS("id", "HASH") >>
                        /\ u.AttributeDefinitions = << AD("id", "S") >> }
    /\ IdleTables

\* Each caller invokes update_table once.
UpdateStep(p) ==
    \/ pc[p] = "idle" /\ UpdateTableBegin(p, Declared, NotGiven)
    \/ \E a \in Answers(TRUE) : Describe(p, a)
    \/ \E a \in Answers(TRUE) : UpdateThroughput(p, a)
    \/ \E n \in IndexNames, a \in Answers(TRUE) : ReconcileIndex(p, n, a)
    \/ \E n \in IndexNames, a \in Answers(TRUE) : DeleteIndex(p, n, a)
    \/ \E n \in IndexNames : KeepIndex(p, n)

NextConcurrent == \E p \in Procs : UpdateStep(p)

SpecConcurrent == InitConcurrent /\ [][NextConcurrent]_vars

\* The invocation's last call, the one the service refused.
RefusedCall(p) == calls[p][Len(calls[p])]

\* A successful call of kind op on index n by caller p.
Succeeded(p, op, n) ==
    \E i \in IndexCalls(p, op, n) : i < Len(calls[p]) \/ failed[p] = <<>>

\* C18: update_table invocations running at the same time are not coordinated.
\* Each one decides its create, update and delete calls from its own
\* description of upstream and the local declaration, whatever the other has
\* done since, so an invocation can issue a create-index call for an index
\* the other has already created, or a delete-index call for one the other
\* has already deleted.
C18_ConcurrentInvocationsUncoordinated ==
    \A p \in Procs :
        (IsUpdate(p) /\ Described(p)) =>
            /\ \A i \in CallsOf(p, "create_gsi") :
                   calls[p][i].index \in LocalNames(p) \ SnapshotNames(p)
            /\ \A i \in CallsOf(p, "update_gsi") :
                   calls[p][i].index \in LocalNames(p) \cap SnapshotNames(p)
            /\ \A i \in CallsOf(p, "delete_gsi") :
                   calls[p][i].index \in SnapshotNames(p) \ LocalNames(p)

\* A create-index call for an index the other invocation created meanwhile.
C18_Witness ==
    \E p, q \in Procs :
        /\ p # q /\ IsUpdate(p) /\ IsUpdate(q)
        /\ args[p].table_name = args[q].table_name
        /\ failed[p] # <<>>
        /\ RefusedCall(p).op = "create_gsi"
        /\ RefusedCall(p).index \in upstream.gsi
        /\ Succeeded(q, "create_gsi", RefusedCall(p).index)

\* A delete-index call for an index the other invocation deleted meanwhile.
C18_DeleteOfDeletedIndex ==
    \E p, q \in Procs :
        /\ p # q /\ IsUpdate(p) /\ IsUpdate(q)
        /\ args[p].table_name = args[q].table_name
        /\ failed[p] # <<>>
        /\ RefusedCall(p).op = "delete_gsi"
        /\ RefusedCall(p).index \notin upstream.gsi
        /\ Succeeded(q, "delete_gsi", RefusedCall(p).index)
====
